---- MODULE Spec2Model ----
(***************************************************************************)
(* Model of the publish/subscribe broker of src/server/server.py and its   *)
(* stores in src/server/helper_types.py: the subscription registry, the    *)
(* session registry, the pending message store and the five handlers       *)
(* (start, disconnect, publish_messages, subscribe, unsubscribe).          *)
(*                                                                         *)
(* server.py takes no lock and socketio.run serves every event and every   *)
(* request in a thread of its own, so a handler is a sequence of steps,    *)
(* one step for each access to a shared store, and the steps of two        *)
(* handlers interleave freely.  The position of a handler and its local    *)
(* variables are kept in thr.                                              *)
(*                                                                         *)
(* Python lists are indexed from 0, TLA+ sequences from 1: an index i of   *)
(* the source is i + 1 here, and the source's None start index is 0.       *)
(***************************************************************************)
EXTENDS Integers, Sequences, FiniteSets, TLC

\* ------------------------------------------------------------------ bounds
MaxTime == 12
MaxMsgs == 2
MaxBatch == 2
MaxOverlap == 1

Users == {"alice", "bob"}
Topics == {"food", "news"}
Sids == {1, 2}
Threads == {1, 2}

\* Python's None, as a key of last_disconnected_time and as a missing sid.
None == "None"

\* The value a defaultdict(str) makes for a missing key: as a user name, and
\* as a sid (no connection has it, like a missing sid).
EmptyStr == ""

NoSid == 0

\* server.py:18
TTL == 10

\* time() between two readings: the clock never goes back.
Delays == {TTL, TTL + 1}

VARIABLES
    user_to_topic_subscriptions,  \* Subscriptions: dict user -> set of topics
    topic_to_user_subscriptions,  \* Subscriptions: dict topic -> set of users
    user_sid_to_name_sessions,    \* Sessions: dict sid -> user
    user_name_to_sid_sessions,    \* Sessions: dict user -> sid
    messages,                     \* PendingMessages.messages: dict topic ->
                                  \*   list of Message objects (their ids)
    topic_order,                  \* the keys of messages in insertion order
    objects,                      \* the Message objects: id -> fields
    last_disconnected_time,       \* dict user -> time
    rooms,                        \* socketio rooms: sid -> set of topics
    open,                         \* sids of the open transport connections
    clock,                        \* the value time() returns now
    nmsgs,                        \* number of entries accepted for publishing
    thr,                          \* thread -> the handler it runs, its
                                  \*   position and its local variables
    left,                         \* handler -> calls the run may still start
    published,                    \* history: id -> topic, publish time, the
                                  \*   users sent the entry live and the
                                  \*   followers of the topic at that moment
    replayed,                     \* history: the <<id, user>> replayed so far
    missed,                       \* history: user -> entries emitted while
                                  \*   the user followed the topic without a
                                  \*   session, since the user's last
                                  \*   accepted start
    serial                        \* history: no two handlers have overlapped

vars == <<user_to_topic_subscriptions, topic_to_user_subscriptions,
          user_sid_to_name_sessions, user_name_to_sid_sessions, messages,
          topic_order, objects, last_disconnected_time, rooms, open, clock,
          nmsgs, thr, left, published, replayed, missed, serial>>

subscriptions == <<user_to_topic_subscriptions, topic_to_user_subscriptions>>

sessions == <<user_sid_to_name_sessions, user_name_to_sid_sessions>>

pending_messages == <<messages, topic_order, objects>>

transport == <<rooms, open>>

history == <<published, replayed, missed>>

\* ------------------------------------------------------- dictionaries
EmptyDict == [k \in {} |-> {}]

DictPut(d, k, v) == [x \in (DOMAIN d) \cup {k} |-> IF x = k THEN v ELSE d[x]]

DictDel(d, k) == [x \in (DOMAIN d) \ {k} |-> d[x]]

\* Reading d[k] of a defaultdict(set): a missing key is created empty.
DictTouch(d, k) == IF k \in DOMAIN d THEN d ELSE DictPut(d, k, {})

DictGet(d, k) == IF k \in DOMAIN d THEN d[k] ELSE {}

Range(f) == {f[x] : x \in DOMAIN f}

\* list.pop(index) on a list that has the index.
Pop(list, index) ==
    [k \in 1..(Len(list) - 1) |-> IF k < index THEN list[k] ELSE list[k + 1]]

\* sorted(indexes, reverse=True): the indexes are collected in increasing
\* order, so the sorted list is the reversed one.
Reversed(list) == [k \in 1..Len(list) |-> list[Len(list) + 1 - k]]

\* ------------------------------------------------- helper_types.Message
Message(publish_time, content, pending_users) ==
    [publish_time |-> publish_time, content |-> content,
     pending_users |-> pending_users]

Message_jsonify(msg) ==
    [publish_time |-> msg.publish_time, content |-> msg.content]

\* ------------------------------------------ helper_types.PendingMessages
\* self.messages[topic] of a defaultdict(list): a missing key is created
\* with an empty list and becomes the last key of the dictionary.
log_of(msgs, topic) == IF topic \in DOMAIN msgs THEN msgs[topic] ELSE <<>>

touch_log(msgs, topic) ==
    IF topic \in DOMAIN msgs THEN msgs ELSE DictPut(msgs, topic, <<>>)

touch_order(order, msgs, topic) ==
    IF topic \in DOMAIN msgs THEN order ELSE Append(order, topic)

get_topic_size(msgs, topic) == Len(log_of(msgs, topic))

\* ---------------------------------------------- helper_types.Subscriptions
get_topics(u2t, user_name) == DictGet(u2t, user_name)

get_users(t2u, topic) == DictGet(t2u, topic)

\* -------------------------------------------------- helper_types.Sessions
is_user_connected(n2s, user_name) == user_name \in DOMAIN n2s

get_all_connected_user_names(n2s) == DOMAIN n2s

\* The user a sid is bound to, None without one.
get_user_name(s2n, user_sid) ==
    IF user_sid \in DOMAIN s2n THEN s2n[user_sid] ELSE None

\* ----------------------------------------------------------------- threads
\* A set or dictionary iterator: the size at its creation and how far it
\* is.  A dictionary iterator has a position in the key order.  A set
\* iterator walks the slots of the hash table: seen are the elements whose
\* slot it has passed, fresh those put into the table after it started to
\* walk, whose slot may lie before or after the place it is at.
NoIter == [size |-> 0, seen |-> {}, fresh |-> {}, pos |-> 0]

Idle ==
    [h |-> "idle", pc |-> "idle", ret |-> "idle", raised |-> "",
     user_name |-> None, user_sid |-> 0, request |-> <<>>, first |-> 0,
     i |-> 0, j |-> 0, topic |-> None, index |-> 0, stop |-> 0, now |-> 0,
     since |-> 0, it |-> NoIter, idxs |-> <<>>, m |-> 0, pend |-> {},
     name |-> None, found |-> None, to |-> 0, rejected |-> FALSE, accepted |-> FALSE,
     sent |-> <<>>, missing |-> {}, follows |-> {}, at |-> 0,
     before |-> {}, logs |-> <<>>, gone |-> {}, bound |-> None]

Running(t) == thr[t].h # "idle"

\* The handler ends: normally, or with the exception that was raised.
Return(rec) == [rec EXCEPT !.pc = "return"]

Raise(rec, exception) == [rec EXCEPT !.pc = "return", !.raised = exception]

Step(t, rec) == thr' = [thr EXCEPT ![t] = rec]

\* -------------------------------------------------------------- transport
\* A sid is fresh when nothing refers to it: the transport gives every new
\* connection a sid that was never used.
Fresh(sid) ==
    /\ sid \notin open
    /\ sid \notin DOMAIN user_sid_to_name_sessions
    /\ sid \notin Range(user_name_to_sid_sessions)
    /\ rooms[sid] = {}
    /\ \A t \in Threads : Running(t) => thr[t].user_sid # sid

\* Fresh sids are interchangeable: a new connection gets the least one.
NewSid(sid) == Fresh(sid) /\ \A other \in Sids : Fresh(other) => sid <= other

\* server.py:151: the sids the room of the topic holds; a closed connection
\* receives nothing.
room_members(rms, opn, topic) == {sid \in opn : topic \in rms[sid]}

\* The handler of thread t runs disconnect for its sid: handle_disconnect
\* itself, or a rejected start that has called disconnect() of server.py:40.
Disconnecting(t) ==
    /\ Running(t)
    /\ \/ thr[t].h = "disconnect"
       \/ thr[t].rejected /\ thr[t].pc # "reject"

\* server.py:20-25: the stores after construction, all empty; `calls` is the
\* number of calls of each handler the run makes.
Init(calls) ==
    /\ left = calls
    /\ user_to_topic_subscriptions = EmptyDict
    /\ topic_to_user_subscriptions = EmptyDict
    /\ user_sid_to_name_sessions = EmptyDict
    /\ user_name_to_sid_sessions = EmptyDict
    /\ messages = EmptyDict
    /\ topic_order = <<>>
    /\ objects = EmptyDict
    /\ last_disconnected_time = EmptyDict
    /\ rooms = [sid \in Sids |-> {}]
    /\ open = {}
    /\ clock = 1
    /\ nmsgs = 0
    /\ thr = [t \in Threads |-> Idle]
    /\ published = EmptyDict
    /\ replayed = {}
    /\ missed = [user \in Users |-> {}]
    /\ serial = TRUE

\* ----------------------------------------------------- handle_disconnect
\* helper_types.py:284, Sessions.get_user_name: is the sid a key?
get_user_name_known(t) ==
    LET me == thr[t]
    IN  /\ Step(t, IF me.user_sid \in DOMAIN user_sid_to_name_sessions
                   THEN [me EXCEPT !.pc = "d_name"]
                   ELSE [me EXCEPT !.pc = "d_time", !.name = None])
        /\ UNCHANGED <<subscriptions, sessions, pending_messages,
                       last_disconnected_time, transport, history>>

\* helper_types.py:285: the read of a defaultdict(str) makes the key when
\* the session went away after the test.
get_user_name_read(t) ==
    LET me == thr[t]
        s2n == user_sid_to_name_sessions
    IN  /\ user_sid_to_name_sessions' =
               IF me.user_sid \in DOMAIN s2n THEN s2n
               ELSE DictPut(s2n, me.user_sid, EmptyStr)
        /\ Step(t, [me EXCEPT !.pc = "d_time",
                       !.name = user_sid_to_name_sessions'[me.user_sid]])
        /\ UNCHANGED <<subscriptions, user_name_to_sid_sessions,
                       pending_messages, last_disconnected_time, transport,
                       history>>

\* server.py:89, the call of time().
disconnect_time(t) ==
    /\ Step(t, [thr[t] EXCEPT !.pc = "d_write", !.now = clock])
    /\ UNCHANGED <<subscriptions, sessions, pending_messages,
                   last_disconnected_time, transport, history>>

\* server.py:89, the assignment: also under the key None.
disconnect_write(t) ==
    LET me == thr[t]
    IN  /\ last_disconnected_time' =
               DictPut(last_disconnected_time, me.name, me.now)
        /\ Step(t, [me EXCEPT !.pc = "r_known"])
        /\ UNCHANGED <<subscriptions, sessions, pending_messages, transport,
                       history>>

\* helper_types.py:320 without its test.
remove_user_by_sid_known_Always(t) ==
    /\ Step(t, [thr[t] EXCEPT !.pc = "r_name"])
    /\ UNCHANGED <<subscriptions, sessions, pending_messages,
                   last_disconnected_time, transport, history>>

\* helper_types.py:320.
remove_user_by_sid_known(t) ==
    LET me == thr[t]
    IN  /\ Step(t, IF me.user_sid \in DOMAIN user_sid_to_name_sessions
                   THEN [me EXCEPT !.pc = "r_name"]
                   ELSE Return(me))
        /\ UNCHANGED <<subscriptions, sessions, pending_messages,
                       last_disconnected_time, transport, history>>

\* helper_types.py:321.
remove_user_by_sid_read(t) ==
    LET me == thr[t]
        s2n == user_sid_to_name_sessions
    IN  /\ user_sid_to_name_sessions' =
               IF me.user_sid \in DOMAIN s2n THEN s2n
               ELSE DictPut(s2n, me.user_sid, EmptyStr)
        /\ Step(t, [me EXCEPT !.pc = "r_back",
                       !.found = user_sid_to_name_sessions'[me.user_sid]])
        /\ UNCHANGED <<subscriptions, user_name_to_sid_sessions,
                       pending_messages, last_disconnected_time, transport,
                       history>>

\* helper_types.py:322.
remove_user_by_sid_back(t) ==
    LET me == thr[t]
    IN  /\ Step(t, IF me.found \in DOMAIN user_name_to_sid_sessions
                   THEN [me EXCEPT !.pc = "r_del_sid"]
                   ELSE Return(me))
        /\ UNCHANGED <<subscriptions, sessions, pending_messages,
                       last_disconnected_time, transport, history>>

\* helper_types.py:323.
remove_user_by_sid_del_sid(t) ==
    LET me == thr[t]
        s2n == user_sid_to_name_sessions
    IN  /\ IF me.user_sid \in DOMAIN s2n
           THEN /\ user_sid_to_name_sessions' = DictDel(s2n, me.user_sid)
                /\ Step(t, [me EXCEPT !.pc = "r_del_name"])
           ELSE /\ user_sid_to_name_sessions' = s2n
                /\ Step(t, Raise(me, "KeyError"))
        /\ UNCHANGED <<subscriptions, user_name_to_sid_sessions,
                       pending_messages, last_disconnected_time, transport,
                       history>>

\* helper_types.py:324.
remove_user_by_sid_del_name(t) ==
    LET me == thr[t]
        n2s == user_name_to_sid_sessions
    IN  /\ IF me.found \in DOMAIN n2s
           THEN /\ user_name_to_sid_sessions' = DictDel(n2s, me.found)
                /\ Step(t, Return(me))
           ELSE /\ user_name_to_sid_sessions' = n2s
                /\ Step(t, Raise(me, "KeyError"))
        /\ UNCHANGED <<subscriptions, user_sid_to_name_sessions,
                       pending_messages, last_disconnected_time, transport,
                       history>>

\* server.py:85-93, one step of the handler; disconnect() of server.py:40
\* runs the same steps for the sid of the rejected start.
disconnect_step(t) ==
    CASE thr[t].pc = "d_known" -> get_user_name_known(t)
      [] thr[t].pc = "d_name" -> get_user_name_read(t)
      [] thr[t].pc = "d_time" -> disconnect_time(t)
      [] thr[t].pc = "d_write" -> disconnect_write(t)
      [] thr[t].pc = "r_known" -> remove_user_by_sid_known(t)
      [] thr[t].pc = "r_name" -> remove_user_by_sid_read(t)
      [] thr[t].pc = "r_back" -> remove_user_by_sid_back(t)
      [] thr[t].pc = "r_del_sid" -> remove_user_by_sid_del_sid(t)
      [] thr[t].pc = "r_del_name" -> remove_user_by_sid_del_name(t)
      [] OTHER -> FALSE

handle_disconnect(t) ==
    /\ thr[t].h = "disconnect"
    /\ disconnect_step(t)
    /\ UNCHANGED <<clock, nmsgs, left, serial>>

\* ------------------------------------------ remove_fully_transmetted_messages
\* The call of helper_types.py:114-126 for the topic of the thread; ret is
\* where the caller goes on.
EnterPurge(rec, ret) ==
    [rec EXCEPT !.pc = "rf_scan", !.ret = ret, !.j = 1, !.idxs = <<>>]

\* The next entry of the request of an unsubscribe, server.py:219.
NextUnsubscribe(rec) ==
    IF rec.i < Len(rec.request)
    THEN [rec EXCEPT !.pc = "unsub_check", !.i = rec.i + 1]
    ELSE Return(rec)

AfterPurge(rec) ==
    IF rec.ret = "replay_next"
    THEN [rec EXCEPT !.pc = "replay_next"]
    ELSE NextUnsubscribe(rec)

\* helper_types.py:122, one turn of the loop over the list as it is now.
remove_fully_transmetted_messages_scan(t) ==
    LET me == thr[t]
        log == log_of(messages, me.topic)
    IN  /\ Step(t, IF me.j > Len(log)
                   THEN IF me.idxs = <<>>
                        THEN AfterPurge(me)
                        ELSE [me EXCEPT !.pc = "rf_pop",
                                        !.idxs = Reversed(me.idxs)]
                   ELSE [me EXCEPT !.pc = "rf_check", !.m = log[me.j]])
        /\ UNCHANGED <<subscriptions, sessions, pending_messages,
                       last_disconnected_time, transport, history>>

\* helper_types.py:123-124.
remove_fully_transmetted_messages_check(t) ==
    LET me == thr[t]
    IN  /\ Step(t, [me EXCEPT !.pc = "rf_scan", !.j = me.j + 1,
                       !.idxs = IF objects[me.m].pending_users = {}
                                THEN Append(me.idxs, me.j)
                                ELSE me.idxs])
        /\ UNCHANGED <<subscriptions, sessions, pending_messages,
                       last_disconnected_time, transport, history>>

\* helper_types.py:126, list.pop(idx).
remove_fully_transmetted_messages_pop(log, index) == Pop(log, index)

\* helper_types.py:125-126, one turn: the index was taken from the list as
\* it was when it was scanned.
remove_fully_transmetted_messages_next(t) ==
    LET me == thr[t]
        log == log_of(messages, me.topic)
        idx == Head(me.idxs)
    IN  /\ IF idx <= Len(log)
           THEN /\ messages' =
                       [messages EXCEPT ![me.topic] =
                           remove_fully_transmetted_messages_pop(log, idx)]
                /\ Step(t, IF Tail(me.idxs) = <<>>
                           THEN AfterPurge(me)
                           ELSE [me EXCEPT !.idxs = Tail(me.idxs)])
           ELSE /\ messages' = messages
                /\ Step(t, Raise(me, "IndexError"))
        /\ UNCHANGED <<subscriptions, sessions, topic_order, objects,
                       last_disconnected_time, transport, history>>

purge_step(t) ==
    CASE thr[t].pc = "rf_scan" -> remove_fully_transmetted_messages_scan(t)
      [] thr[t].pc = "rf_check" -> remove_fully_transmetted_messages_check(t)
      [] thr[t].pc = "rf_pop" -> remove_fully_transmetted_messages_next(t)
      [] OTHER -> FALSE

\* -------------------------------------------------------- set iteration
\* for topic in topics, over the set of the registry itself
\* (Subscriptions.get_topics returns the set, not a copy).
NewSetIter(set) == [NoIter EXCEPT !.size = Cardinality(set)]

\* A set iterator raises RuntimeError when the size of the set is not the
\* one it started with.
SetIterFails(it, set) == Cardinality(set) # it.size

\* What the iterator can give next: an element whose slot it has not
\* passed.  The order is the order of the hash table.
SetIterNext(it, set) == set \ it.seen

\* The iterator can be at its end when it has passed the slot of every
\* element; an element put into the table during the walk may be in a slot
\* it had passed already.
SetIterEnds(it, set) == (set \ it.fresh) \subseteq it.seen

\* The iterator gives the element.
SetIterGive(it, element) ==
    [it EXCEPT !.seen = @ \cup {element}, !.fresh = @ \ {element}]

\* The pcs of a start inside one of the loops of server.py:52 and 61.
SetLoop ==
    {"room_next", "room_enter", "replay_next", "fs_open", "fs_next", "range",
     "get_check", "get_read", "emit", "rm_read", "rm_check", "rm_remove",
     "rf_scan", "rf_check", "rf_pop"}

\* set.add of an element the set has not, helper_types.py:237, seen from a
\* start that is iterating over the set: before the first element is given
\* every slot is still ahead; later the slot of the new element, also of
\* one that was given before and removed, is ahead or behind.
SetIterInsert(rec, user_name, element) ==
    IF /\ rec.h = "start"
       /\ rec.accepted
       /\ rec.user_name = user_name
       /\ rec.pc \in SetLoop
       /\ rec.it.seen \cup rec.it.fresh # {}
    THEN [rec EXCEPT !.it.seen = @ \ {element},
                     !.it.fresh = @ \cup {element}]
    ELSE rec

\* ---------------------------------------------------------- handle_start
\* server.py:39, Sessions.is_user_connected (helper_types.py:345): the read
\* of user_name_to_sid_sessions.  A start that finds no session goes on to
\* line 46; history keeps what the user missed up to here, the topics the
\* user follows and the time.
start_check(t) ==
    LET me == thr[t]
        topics == get_topics(user_to_topic_subscriptions, me.user_name)
    IN  /\ IF is_user_connected(user_name_to_sid_sessions, me.user_name)
           THEN /\ Step(t, [me EXCEPT !.pc = "reject", !.rejected = TRUE])
                /\ missed' = missed
           ELSE /\ Step(t, [me EXCEPT !.pc = "add_sid", !.accepted = TRUE,
                               !.missing = missed[me.user_name],
                               !.follows = topics,
                               !.at = clock,
                               !.before = {id \in DOMAIN published :
                                             <<id, me.user_name>>
                                                 \in replayed}])
                /\ missed' = [missed EXCEPT ![me.user_name] = {}]
        /\ UNCHANGED <<subscriptions, sessions, pending_messages,
                       last_disconnected_time, transport, published,
                       replayed>>

\* server.py:40, disconnect(): the transport runs the disconnect handler for
\* the sid of the event, unless it is already running it.
start_reject(t) ==
    LET me == thr[t]
    IN  /\ Step(t, IF \E s \in Threads \ {t} :
                        Disconnecting(s) /\ thr[s].user_sid = me.user_sid
                    THEN Return(me)
                    ELSE [me EXCEPT !.pc = "d_known"])
        /\ UNCHANGED <<subscriptions, sessions, pending_messages,
                       last_disconnected_time, transport, history>>

\* helper_types.py:310.
Sessions_add_user_sid(t) ==
    LET me == thr[t]
    IN  /\ user_sid_to_name_sessions' =
               DictPut(user_sid_to_name_sessions, me.user_sid, me.user_name)
        /\ Step(t, [me EXCEPT !.pc = "add_name"])
        /\ UNCHANGED <<subscriptions, user_name_to_sid_sessions,
                       pending_messages, last_disconnected_time, transport,
                       history>>

\* helper_types.py:311.
Sessions_add_user_name(t) ==
    LET me == thr[t]
    IN  /\ user_name_to_sid_sessions' =
               DictPut(user_name_to_sid_sessions, me.user_name, me.user_sid)
        /\ Step(t, [me EXCEPT !.pc = "topics"])
        /\ UNCHANGED <<subscriptions, user_sid_to_name_sessions,
                       pending_messages, last_disconnected_time, transport,
                       history>>

\* server.py:49 and the start of the loop of server.py:52.  The key the
\* defaultdict makes is read by nobody before the loop starts.
start_topics(t) ==
    LET me == thr[t]
        topics == get_topics(user_to_topic_subscriptions, me.user_name)
    IN  /\ user_to_topic_subscriptions' =
               DictTouch(user_to_topic_subscriptions, me.user_name)
        /\ Step(t, [me EXCEPT !.pc = "room_next", !.it = NewSetIter(topics)])
        /\ UNCHANGED <<topic_to_user_subscriptions, sessions,
                       pending_messages, last_disconnected_time, transport,
                       history>>

\* server.py:52, the next topic of the loop.
start_room_next(t) ==
    LET me == thr[t]
        topics == get_topics(user_to_topic_subscriptions, me.user_name)
    IN  /\ \/ /\ SetIterFails(me.it, topics)
              /\ Step(t, Raise(me, "RuntimeError"))
           \/ /\ ~SetIterFails(me.it, topics)
              /\ SetIterEnds(me.it, topics)
              /\ Step(t, [me EXCEPT !.pc = "since"])
           \/ /\ ~SetIterFails(me.it, topics)
              /\ \E topic \in SetIterNext(me.it, topics) :
                    Step(t, [me EXCEPT !.pc = "room_enter", !.topic = topic,
                                !.it = SetIterGive(@, topic)])
        /\ UNCHANGED <<subscriptions, sessions, pending_messages,
                       last_disconnected_time, transport, history>>

\* server.py:53.
start_room_enter(t) ==
    LET me == thr[t]
    IN  /\ rooms' = [rooms EXCEPT ![me.user_sid] = @ \cup {me.topic}]
        /\ Step(t, [me EXCEPT !.pc = "room_next"])
        /\ UNCHANGED <<subscriptions, sessions, pending_messages,
                       last_disconnected_time, open, history>>

disconnected_time_of_Now(ldt, user_name) ==
    IF user_name \in DOMAIN ldt THEN ldt[user_name] ELSE MaxTime + 1

\* server.py:56.
disconnected_time_of(ldt, user_name) ==
    IF user_name \in DOMAIN ldt THEN ldt[user_name] ELSE 0

start_since(t) ==
    LET me == thr[t]
    IN  /\ Step(t, [me EXCEPT !.pc = "evict_now",
                       !.since = disconnected_time_of(last_disconnected_time,
                                                      me.user_name)])
        /\ UNCHANGED <<subscriptions, sessions, pending_messages,
                       last_disconnected_time, transport, history>>

\* helper_types.py:103.
remove_old_messages_now(t) ==
    /\ Step(t, [thr[t] EXCEPT !.pc = "evict_iter", !.now = clock])
    /\ UNCHANGED <<subscriptions, sessions, pending_messages,
                   last_disconnected_time, transport, history>>

\* helper_types.py:104, the start of the loop over the keys.
remove_old_messages_iter(t) ==
    /\ Step(t, [thr[t] EXCEPT !.pc = "evict_next",
                   !.it = [NoIter EXCEPT !.size = Len(topic_order),
                                         !.pos = 1]])
    /\ UNCHANGED <<subscriptions, sessions, pending_messages,
                   last_disconnected_time, transport, history>>

\* helper_types.py:104, the next key: a dictionary iterator raises
\* RuntimeError when a key was added since it started.
remove_old_messages_next(t) ==
    LET me == thr[t]
    IN  /\ Step(t, IF Len(topic_order) # me.it.size
                   THEN Raise(me, "RuntimeError")
                   ELSE IF me.it.pos > me.it.size
                   THEN [me EXCEPT !.pc = "replay_iter"]
                   ELSE [me EXCEPT !.pc = "evict_size",
                                   !.topic = topic_order[me.it.pos],
                                   !.it.pos = @ + 1])
        /\ UNCHANGED <<subscriptions, sessions, pending_messages,
                       last_disconnected_time, transport, history>>

\* helper_types.py:108.
remove_old_messages_size(t) ==
    LET me == thr[t]
    IN  /\ Step(t, IF get_topic_size(messages, me.topic) = 0
                   THEN [me EXCEPT !.pc = "evict_next"]
                   ELSE [me EXCEPT !.pc = "evict_head"])
        /\ UNCHANGED <<subscriptions, sessions, pending_messages,
                       last_disconnected_time, transport, history>>

\* helper_types.py:109-110, negated: the message is evicted.
is_old(publish_time, now) == ~(publish_time >= now - TTL)

\* helper_types.py:109.
remove_old_messages_head(t) ==
    LET me == thr[t]
        log == log_of(messages, me.topic)
    IN  /\ Step(t, IF log = <<>>
                   THEN Raise(me, "IndexError")
                   ELSE IF is_old(objects[log[1]].publish_time, me.now)
                   THEN [me EXCEPT !.pc = "evict_pop"]
                   ELSE [me EXCEPT !.pc = "evict_next"])
        /\ UNCHANGED <<subscriptions, sessions, pending_messages,
                       last_disconnected_time, transport, history>>

\* helper_types.py:112.
remove_old_messages_pop(t) ==
    LET me == thr[t]
        log == log_of(messages, me.topic)
    IN  /\ IF log = <<>>
           THEN /\ messages' = messages
                /\ Step(t, Raise(me, "IndexError"))
           ELSE /\ messages' = [messages EXCEPT ![me.topic] = Tail(log)]
                /\ Step(t, [me EXCEPT !.pc = "evict_size"])
        /\ UNCHANGED <<subscriptions, sessions, topic_order, objects,
                       last_disconnected_time, transport, history>>

\* server.py:61, the start of the second loop over the set of topics;
\* history keeps the logs of these topics as the eviction has left them.
start_replay_iter(t) ==
    LET me == thr[t]
        topics == get_topics(user_to_topic_subscriptions, me.user_name)
    IN  /\ Step(t, [me EXCEPT !.pc = "replay_next",
                       !.it = NewSetIter(topics),
                       !.logs = [topic \in topics |->
                                    log_of(messages, topic)]])
        /\ UNCHANGED <<subscriptions, sessions, pending_messages,
                       last_disconnected_time, transport, history>>

\* server.py:61, the next topic.
start_replay_next(t) ==
    LET me == thr[t]
        topics == get_topics(user_to_topic_subscriptions, me.user_name)
    IN  /\ \/ /\ SetIterFails(me.it, topics)
              /\ Step(t, Raise(me, "RuntimeError"))
           \/ /\ ~SetIterFails(me.it, topics)
              /\ SetIterEnds(me.it, topics)
              /\ Step(t, Return(me))
           \/ /\ ~SetIterFails(me.it, topics)
              /\ \E topic \in SetIterNext(me.it, topics) :
                    Step(t, [me EXCEPT !.pc = "fs_open", !.topic = topic,
                                !.it = SetIterGive(@, topic)])
        /\ UNCHANGED <<subscriptions, sessions, pending_messages,
                       last_disconnected_time, transport, history>>

\* helper_types.py:141.
find_start_index_hit(publish_time, disconnected_time) ==
    publish_time >= disconnected_time

\* helper_types.py:140, self.messages[topic] and enumerate(): the read of
\* the defaultdict makes the key of the topic; the list is not read yet.
find_start_index_open(t) ==
    LET me == thr[t]
    IN  /\ messages' = touch_log(messages, me.topic)
        /\ topic_order' = touch_order(topic_order, messages, me.topic)
        /\ Step(t, [me EXCEPT !.pc = "fs_next", !.j = 1])
        /\ UNCHANGED <<subscriptions, sessions, objects,
                       last_disconnected_time, transport, history>>

\* helper_types.py:140-144, one turn of the loop over the list as it is
\* now.
find_start_index(t) ==
    LET me == thr[t]
        log == log_of(messages, me.topic)
    IN  /\ Step(t, IF me.j > Len(log)
                   THEN [me EXCEPT !.pc = "replay_next"]
                   ELSE IF find_start_index_hit(objects[log[me.j]].publish_time,
                                                me.since)
                   THEN [me EXCEPT !.pc = "range", !.index = me.j]
                   ELSE [me EXCEPT !.j = me.j + 1])
        /\ UNCHANGED <<subscriptions, sessions, pending_messages,
                       last_disconnected_time, transport, history>>

\* server.py:67, the test of the loop: the range is fixed when the loop
\* starts.
NextIndex(rec) ==
    IF rec.index <= rec.stop
    THEN [rec EXCEPT !.pc = "get_check"]
    ELSE EnterPurge(rec, "replay_next")

\* server.py:67, get_topic_size.
start_range(t) ==
    LET me == thr[t]
    IN  /\ Step(t, NextIndex([me EXCEPT
                       !.stop = get_topic_size(messages, me.topic)]))
        /\ UNCHANGED <<subscriptions, sessions, pending_messages,
                       last_disconnected_time, transport, history>>

\* helper_types.py:157: outside the list get_message returns None, and
\* server.py:69 calls jsonify of it.
get_message_check(t) ==
    LET me == thr[t]
    IN  /\ Step(t, IF me.index <= get_topic_size(messages, me.topic)
                   THEN [me EXCEPT !.pc = "get_read"]
                   ELSE Raise(me, "AttributeError"))
        /\ UNCHANGED <<subscriptions, sessions, pending_messages,
                       last_disconnected_time, transport, history>>

\* helper_types.py:158, the message at the index now; the start keeps the
\* object, which stays what it is when the list loses it.
get_message_read(t) ==
    LET me == thr[t]
        log == log_of(messages, me.topic)
    IN  /\ Step(t, IF me.index <= Len(log)
                   THEN [me EXCEPT !.pc = "emit", !.m = log[me.index]]
                   ELSE Raise(me, "IndexError"))
        /\ UNCHANGED <<subscriptions, sessions, pending_messages,
                       last_disconnected_time, transport, history>>

\* server.py:69-71: jsonify of the message read, its topic, and the emit to
\* the connection of the start.
start_emit(t) ==
    LET me == thr[t]
    IN  /\ Step(t, [me EXCEPT !.pc = "rm_read",
                       !.sent = Append(me.sent,
                                       Message_jsonify(objects[me.m]))])
        /\ replayed' = replayed \cup {<<me.m, me.user_name>>}
        /\ UNCHANGED <<subscriptions, sessions, pending_messages,
                       last_disconnected_time, transport, published, missed>>

\* helper_types.py:171, the message at the index now.
remove_user_from_message_read(t) ==
    LET me == thr[t]
        log == log_of(messages, me.topic)
    IN  /\ Step(t, IF me.index <= Len(log)
                   THEN [me EXCEPT !.pc = "rm_check", !.m = log[me.index]]
                   ELSE Raise(me, "IndexError"))
        /\ UNCHANGED <<subscriptions, sessions, pending_messages,
                       last_disconnected_time, transport, history>>

\* helper_types.py:30.
Message_remove_user_check(t) ==
    LET me == thr[t]
    IN  /\ Step(t, IF me.user_name \in objects[me.m].pending_users
                   THEN [me EXCEPT !.pc = "rm_remove"]
                   ELSE NextIndex([me EXCEPT !.index = me.index + 1]))
        /\ UNCHANGED <<subscriptions, sessions, pending_messages,
                       last_disconnected_time, transport, history>>

Message_remove_user_Keep(pending_users, user_name) == pending_users

\* helper_types.py:31, set.remove of a member.
Message_remove_user(pending_users, user_name) == pending_users \ {user_name}

\* helper_types.py:31.
Message_remove_user_remove(t) ==
    LET me == thr[t]
    IN  /\ IF me.user_name \in objects[me.m].pending_users
           THEN /\ objects' =
                       [objects EXCEPT ![me.m].pending_users =
                           Message_remove_user(@, me.user_name)]
                /\ Step(t, NextIndex([me EXCEPT !.index = me.index + 1]))
           ELSE /\ objects' = objects
                /\ Step(t, Raise(me, "KeyError"))
        /\ UNCHANGED <<subscriptions, sessions, messages, topic_order,
                       last_disconnected_time, transport, history>>

start_step(t) ==
    CASE thr[t].pc = "check" -> start_check(t)
      [] thr[t].pc = "reject" -> start_reject(t)
      [] thr[t].pc = "add_sid" -> Sessions_add_user_sid(t)
      [] thr[t].pc = "add_name" -> Sessions_add_user_name(t)
      [] thr[t].pc = "topics" -> start_topics(t)
      [] thr[t].pc = "room_next" -> start_room_next(t)
      [] thr[t].pc = "room_enter" -> start_room_enter(t)
      [] thr[t].pc = "since" -> start_since(t)
      [] thr[t].pc = "evict_now" -> remove_old_messages_now(t)
      [] thr[t].pc = "evict_iter" -> remove_old_messages_iter(t)
      [] thr[t].pc = "evict_next" -> remove_old_messages_next(t)
      [] thr[t].pc = "evict_size" -> remove_old_messages_size(t)
      [] thr[t].pc = "evict_head" -> remove_old_messages_head(t)
      [] thr[t].pc = "evict_pop" -> remove_old_messages_pop(t)
      [] thr[t].pc = "replay_iter" -> start_replay_iter(t)
      [] thr[t].pc = "replay_next" -> start_replay_next(t)
      [] thr[t].pc = "fs_open" -> find_start_index_open(t)
      [] thr[t].pc = "fs_next" -> find_start_index(t)
      [] thr[t].pc = "range" -> start_range(t)
      [] thr[t].pc = "get_check" -> get_message_check(t)
      [] thr[t].pc = "get_read" -> get_message_read(t)
      [] thr[t].pc = "emit" -> start_emit(t)
      [] thr[t].pc = "rm_read" -> remove_user_from_message_read(t)
      [] thr[t].pc = "rm_check" -> Message_remove_user_check(t)
      [] thr[t].pc = "rm_remove" -> Message_remove_user_remove(t)
      [] thr[t].pc \in {"rf_scan", "rf_check", "rf_pop"} -> purge_step(t)
      [] OTHER -> disconnect_step(t)

\* server.py:27-77, one step of the handler.
handle_start(t) ==
    /\ thr[t].h = "start"
    /\ thr[t].pc # "return"
    /\ start_step(t)
    /\ UNCHANGED <<clock, nmsgs, left, serial>>

\* ------------------------------------------------------ publish_messages
ListsOver(topics) == UNION {[1..n -> topics] : n \in 1..MaxBatch}

\* The entry of the request the loop of server.py:147 is at, and the
\* content it carries: the entries are numbered as they are accepted.
EntryTopic(rec) == rec.request[rec.i]

EntryId(rec) == rec.first + rec.i - 1

NextEntry(rec) ==
    IF rec.i < Len(rec.request)
    THEN [rec EXCEPT !.pc = "pub_emit", !.i = rec.i + 1]
    ELSE Return(rec)

\* server.py:145.
publish_time(t) ==
    /\ Step(t, [thr[t] EXCEPT !.pc = "pub_emit", !.now = clock, !.i = 1])
    /\ UNCHANGED <<subscriptions, sessions, pending_messages,
                   last_disconnected_time, transport, history>>

\* server.py:106-108: the users of the topic in
\* topic_to_user_subscriptions who have no session.
Offline(topic) ==
    get_users(topic_to_user_subscriptions, topic)
        \ get_all_connected_user_names(user_name_to_sid_sessions)

\* server.py:151: the message goes to the connections in the room now; it
\* is sent live to the users these connections are bound to.
publish_emit(t) ==
    LET me == thr[t]
        topic == EntryTopic(me)
        live == {user_sid_to_name_sessions[sid] :
                    sid \in room_members(rooms, open, topic)
                             \cap DOMAIN user_sid_to_name_sessions}
    IN  /\ published' = DictPut(published, EntryId(me),
                                [topic |-> topic, publish_time |-> me.now,
                                 live |-> live,
                                 subscribed |->
                                     get_users(topic_to_user_subscriptions,
                                               topic)])
        /\ missed' = [user \in Users |->
                         IF user \in Offline(topic)
                         THEN missed[user] \cup {EntryId(me)}
                         ELSE missed[user]]
        /\ Step(t, [me EXCEPT !.pc = "pub_users"])
        /\ UNCHANGED <<subscriptions, sessions, pending_messages,
                       last_disconnected_time, transport, replayed>>

\* server.py:106, Subscriptions.get_users: the set of the registry itself;
\* the defaultdict makes the key.
get_pending_users_subscribed(t) ==
    LET me == thr[t]
    IN  /\ topic_to_user_subscriptions' =
               DictTouch(topic_to_user_subscriptions, EntryTopic(me))
        /\ Step(t, [me EXCEPT !.pc = "pub_connected"])
        /\ UNCHANGED <<user_to_topic_subscriptions, sessions,
                       pending_messages, last_disconnected_time, transport,
                       history>>

\* server.py:107, a copy of the keys.
get_pending_users_connected(t) ==
    LET me == thr[t]
    IN  /\ Step(t, [me EXCEPT !.pc = "pub_pending",
                       !.pend = get_all_connected_user_names(
                                    user_name_to_sid_sessions)])
        /\ UNCHANGED <<subscriptions, sessions, pending_messages,
                       last_disconnected_time, transport, history>>

\* server.py:108.
get_pending_users(all_subscribed, all_connected) ==
    all_subscribed \ all_connected

\* server.py:108 with the subscribers as they are now, and the test of
\* server.py:155.
get_pending_users_pending(t) ==
    LET me == thr[t]
        pending_users ==
            get_pending_users(get_users(topic_to_user_subscriptions,
                                        EntryTopic(me)),
                              me.pend)
    IN  /\ Step(t, IF Cardinality(pending_users) # 0
                   THEN [me EXCEPT !.pc = "pub_store", !.pend = pending_users]
                   ELSE NextEntry([me EXCEPT !.pend = {}]))
        /\ UNCHANGED <<subscriptions, sessions, pending_messages,
                       last_disconnected_time, transport, history>>

\* server.py:156, helper_types.py:97.
add_new_message(t) ==
    LET me == thr[t]
        topic == EntryTopic(me)
    IN  /\ objects' = DictPut(objects, EntryId(me),
                              Message(me.now, EntryId(me), me.pend))
        /\ messages' = [touch_log(messages, topic) EXCEPT
                           ![topic] = Append(@, EntryId(me))]
        /\ topic_order' = touch_order(topic_order, messages, topic)
        /\ Step(t, NextEntry([me EXCEPT !.pend = {}]))
        /\ UNCHANGED <<subscriptions, sessions, last_disconnected_time,
                       transport, history>>

publish_step(t) ==
    CASE thr[t].pc = "pub_time" -> publish_time(t)
      [] thr[t].pc = "pub_emit" -> publish_emit(t)
      [] thr[t].pc = "pub_users" -> get_pending_users_subscribed(t)
      [] thr[t].pc = "pub_connected" -> get_pending_users_connected(t)
      [] thr[t].pc = "pub_pending" -> get_pending_users_pending(t)
      [] thr[t].pc = "pub_store" -> add_new_message(t)
      [] OTHER -> FALSE

\* server.py:111-160, one step of the handler.
publish_messages(t) ==
    /\ thr[t].h = "publish"
    /\ publish_step(t)
    /\ UNCHANGED <<clock, nmsgs, left, serial>>

\* --------------------------------------------------------------- subscribe
SubTopic(rec) == rec.request[rec.i]

\* The next topic of the request, server.py:184; Subscriptions.add_user
\* called by itself returns.
NextSubscribe(rec) ==
    IF rec.h = "subscribe" /\ rec.i < Len(rec.request)
    THEN [rec EXCEPT !.pc = "sub_u2t", !.i = rec.i + 1]
    ELSE Return(rec)

\* helper_types.py:237.
Subscriptions_add_user_topic(t) ==
    LET me == thr[t]
        u2t == user_to_topic_subscriptions
        new == SubTopic(me) \notin get_topics(u2t, me.user_name)
    IN  /\ user_to_topic_subscriptions' =
               DictPut(u2t, me.user_name,
                       get_topics(u2t, me.user_name) \cup {SubTopic(me)})
        /\ thr' = [s \in Threads |->
                      IF s = t THEN [me EXCEPT !.pc = "sub_t2u"]
                      ELSE IF new
                      THEN SetIterInsert(thr[s], me.user_name, SubTopic(me))
                      ELSE thr[s]]
        /\ UNCHANGED <<topic_to_user_subscriptions, sessions,
                       pending_messages, last_disconnected_time, transport,
                       history>>

\* helper_types.py:238.
Subscriptions_add_user_user(t) ==
    LET me == thr[t]
        t2u == topic_to_user_subscriptions
    IN  /\ topic_to_user_subscriptions' =
               DictPut(t2u, SubTopic(me),
                       get_users(t2u, SubTopic(me)) \cup {me.user_name})
        /\ Step(t, IF me.h = "subscribe"
                   THEN [me EXCEPT !.pc = "sub_connected"]
                   ELSE Return(me))
        /\ UNCHANGED <<user_to_topic_subscriptions, sessions,
                       pending_messages, last_disconnected_time, transport,
                       history>>

\* server.py:190.
subscribe_connected(t) ==
    LET me == thr[t]
    IN  /\ Step(t, IF is_user_connected(user_name_to_sid_sessions,
                                        me.user_name)
                   THEN [me EXCEPT !.pc = "sub_sid_check"]
                   ELSE NextSubscribe(me))
        /\ UNCHANGED <<subscriptions, sessions, pending_messages,
                       last_disconnected_time, transport, history>>

\* helper_types.py:298, Sessions.get_user_sid asks again; the sid is None
\* when the session went away.
get_user_sid_check(t) ==
    LET me == thr[t]
        inner == IF me.h = "subscribe" THEN "sub_enter" ELSE "unsub_leave"
    IN  /\ Step(t, IF is_user_connected(user_name_to_sid_sessions,
                                        me.user_name)
                   THEN [me EXCEPT !.pc = "get_sid"]
                   ELSE [me EXCEPT !.pc = inner, !.to = NoSid, !.j = 1])
        /\ UNCHANGED <<subscriptions, sessions, pending_messages,
                       last_disconnected_time, transport, history>>

\* helper_types.py:299: the read of a defaultdict(str) makes the key when
\* the session went away after the test.
get_user_sid_read(t) ==
    LET me == thr[t]
        n2s == user_name_to_sid_sessions
        inner == IF me.h = "subscribe" THEN "sub_enter" ELSE "unsub_leave"
    IN  /\ user_name_to_sid_sessions' =
               IF me.user_name \in DOMAIN n2s THEN n2s
               ELSE DictPut(n2s, me.user_name, NoSid)
        /\ Step(t, [me EXCEPT !.pc = inner, !.j = 1,
                       !.to = user_name_to_sid_sessions'[me.user_name]])
        /\ UNCHANGED <<subscriptions, user_sid_to_name_sessions,
                       pending_messages, last_disconnected_time, transport,
                       history>>

\* server.py:192-193, one turn of the inner loop: it runs over all the
\* topics of the request.
subscribe_enter(t) ==
    LET me == thr[t]
        last == me.j >= Len(me.request)
    IN  /\ rooms' = IF me.to \in Sids
                    THEN [rooms EXCEPT ![me.to] = @ \cup {me.request[me.j]}]
                    ELSE rooms
        /\ Step(t, IF last THEN NextSubscribe(me)
                   ELSE [me EXCEPT !.j = me.j + 1])
        /\ UNCHANGED <<subscriptions, sessions, pending_messages,
                       last_disconnected_time, open, history>>

subscribe_step(t) ==
    CASE thr[t].pc = "sub_u2t" -> Subscriptions_add_user_topic(t)
      [] thr[t].pc = "sub_t2u" -> Subscriptions_add_user_user(t)
      [] thr[t].pc = "sub_connected" -> subscribe_connected(t)
      [] thr[t].pc = "sub_sid_check" -> get_user_sid_check(t)
      [] thr[t].pc = "get_sid" -> get_user_sid_read(t)
      [] thr[t].pc = "sub_enter" -> subscribe_enter(t)
      [] OTHER -> FALSE

\* server.py:163-195, one step of the handler.
subscribe(t) ==
    /\ thr[t].h = "subscribe"
    /\ subscribe_step(t)
    /\ UNCHANGED <<clock, nmsgs, left, serial>>

\* ------------------------------------------------------------- unsubscribe
\* server.py:220: get_topics makes the key of the user.
unsubscribe_check(t) ==
    LET me == thr[t]
        topic == me.request[me.i]
    IN  /\ user_to_topic_subscriptions' =
               DictTouch(user_to_topic_subscriptions, me.user_name)
        /\ Step(t, IF topic \in get_topics(user_to_topic_subscriptions,
                                           me.user_name)
                   THEN [me EXCEPT !.pc = "unsub_known", !.topic = topic]
                   ELSE NextUnsubscribe(me))
        /\ UNCHANGED <<topic_to_user_subscriptions, sessions,
                       pending_messages, last_disconnected_time, transport,
                       history>>

\* After Subscriptions.remove_user: server.py:224, or the return of the
\* method called by itself.
AfterRemove(rec) ==
    IF rec.h = "unsubscribe"
    THEN [rec EXCEPT !.pc = "unsub_connected"]
    ELSE Return(rec)

\* helper_types.py:248-250: the keys are tested, not the pair.
Subscriptions_remove_user_known(t) ==
    LET me == thr[t]
    IN  /\ Step(t, IF /\ me.user_name \in DOMAIN user_to_topic_subscriptions
                      /\ me.topic \in DOMAIN topic_to_user_subscriptions
                   THEN [me EXCEPT !.pc = "unsub_u2t"]
                   ELSE AfterRemove(me))
        /\ UNCHANGED <<subscriptions, sessions, pending_messages,
                       last_disconnected_time, transport, history>>

\* helper_types.py:252, set.remove.
Subscriptions_remove_user_topic(t) ==
    LET me == thr[t]
        u2t == user_to_topic_subscriptions
    IN  /\ IF me.topic \in get_topics(u2t, me.user_name)
           THEN /\ user_to_topic_subscriptions' =
                       [u2t EXCEPT ![me.user_name] = @ \ {me.topic}]
                /\ Step(t, [me EXCEPT !.pc = "unsub_t2u"])
           ELSE /\ user_to_topic_subscriptions' = DictTouch(u2t, me.user_name)
                /\ Step(t, Raise(me, "KeyError"))
        /\ UNCHANGED <<topic_to_user_subscriptions, sessions,
                       pending_messages, last_disconnected_time, transport,
                       history>>

\* helper_types.py:253, set.remove.
Subscriptions_remove_user_user(t) ==
    LET me == thr[t]
        t2u == topic_to_user_subscriptions
    IN  /\ IF me.user_name \in get_users(t2u, me.topic)
           THEN /\ topic_to_user_subscriptions' =
                       [t2u EXCEPT ![me.topic] = @ \ {me.user_name}]
                /\ Step(t, AfterRemove([me EXCEPT
                               !.gone = @ \cup {me.topic}]))
           ELSE /\ topic_to_user_subscriptions' = DictTouch(t2u, me.topic)
                /\ Step(t, Raise(me, "KeyError"))
        /\ UNCHANGED <<user_to_topic_subscriptions, sessions,
                       pending_messages, last_disconnected_time, transport,
                       history>>

\* server.py:224.
unsubscribe_connected(t) ==
    LET me == thr[t]
    IN  /\ Step(t, IF is_user_connected(user_name_to_sid_sessions,
                                        me.user_name)
                   THEN [me EXCEPT !.pc = "sub_sid_check"]
                   ELSE [me EXCEPT !.pc = "ut_open"])
        /\ UNCHANGED <<subscriptions, sessions, pending_messages,
                       last_disconnected_time, transport, history>>

\* server.py:226.
unsubscribe_leave(t) ==
    LET me == thr[t]
    IN  /\ rooms' = IF me.to \in Sids
                    THEN [rooms EXCEPT ![me.to] = @ \ {me.topic}]
                    ELSE rooms
        /\ Step(t, [me EXCEPT !.pc = "ut_open"])
        /\ UNCHANGED <<subscriptions, sessions, pending_messages,
                       last_disconnected_time, open, history>>

\* helper_types.py:181, self.messages[topic] and iter(): the read of the
\* defaultdict makes the key of the topic; the list is not read yet.
remove_user_from_topic_open(t) ==
    LET me == thr[t]
    IN  /\ messages' = touch_log(messages, me.topic)
        /\ topic_order' = touch_order(topic_order, messages, me.topic)
        /\ Step(t, [me EXCEPT !.pc = "ut_next", !.j = 1])
        /\ UNCHANGED <<subscriptions, sessions, objects,
                       last_disconnected_time, transport, history>>

\* helper_types.py:181, one turn of the loop over the list as it is now.
remove_user_from_topic_next(t) ==
    LET me == thr[t]
        log == log_of(messages, me.topic)
    IN  /\ Step(t, IF me.j > Len(log)
                   THEN EnterPurge(me, "unsub_loop")
                   ELSE [me EXCEPT !.pc = "ut_check", !.m = log[me.j]])
        /\ UNCHANGED <<subscriptions, sessions, pending_messages,
                       last_disconnected_time, transport, history>>

\* helper_types.py:182 and 30: the test of Message.remove_user decides.
remove_user_from_topic_check(t) ==
    LET me == thr[t]
    IN  /\ Step(t, IF me.user_name \in objects[me.m].pending_users
                   THEN [me EXCEPT !.pc = "ut_remove"]
                   ELSE [me EXCEPT !.pc = "ut_next", !.j = me.j + 1])
        /\ UNCHANGED <<subscriptions, sessions, pending_messages,
                       last_disconnected_time, transport, history>>

\* helper_types.py:31.
remove_user_from_topic_remove(t) ==
    LET me == thr[t]
    IN  /\ IF me.user_name \in objects[me.m].pending_users
           THEN /\ objects' =
                       [objects EXCEPT ![me.m].pending_users =
                           Message_remove_user(@, me.user_name)]
                /\ Step(t, [me EXCEPT !.pc = "ut_next", !.j = me.j + 1])
           ELSE /\ objects' = objects
                /\ Step(t, Raise(me, "KeyError"))
        /\ UNCHANGED <<subscriptions, sessions, messages, topic_order,
                       last_disconnected_time, transport, history>>

unsubscribe_step(t) ==
    CASE thr[t].pc = "unsub_check" -> unsubscribe_check(t)
      [] thr[t].pc = "unsub_known" -> Subscriptions_remove_user_known(t)
      [] thr[t].pc = "unsub_u2t" -> Subscriptions_remove_user_topic(t)
      [] thr[t].pc = "unsub_t2u" -> Subscriptions_remove_user_user(t)
      [] thr[t].pc = "unsub_connected" -> unsubscribe_connected(t)
      [] thr[t].pc = "sub_sid_check" -> get_user_sid_check(t)
      [] thr[t].pc = "get_sid" -> get_user_sid_read(t)
      [] thr[t].pc = "unsub_leave" -> unsubscribe_leave(t)
      [] thr[t].pc = "ut_open" -> remove_user_from_topic_open(t)
      [] thr[t].pc = "ut_next" -> remove_user_from_topic_next(t)
      [] thr[t].pc = "ut_check" -> remove_user_from_topic_check(t)
      [] thr[t].pc = "ut_remove" -> remove_user_from_topic_remove(t)
      [] thr[t].pc \in {"rf_scan", "rf_check", "rf_pop"} -> purge_step(t)
      [] OTHER -> FALSE

\* server.py:198-235, one step of the handler.
unsubscribe(t) ==
    /\ thr[t].h = "unsubscribe"
    /\ unsubscribe_step(t)
    /\ UNCHANGED <<clock, nmsgs, left, serial>>

\* ------------------------------------------------------------ the calls
Quiescent == \A t \in Threads : ~Running(t)

\* Threads are interchangeable: a call takes the first one that is free.
Free(t) == ~Running(t) /\ \A s \in Threads : s < t => Running(s)

\* A handler is called in thread t.  left bounds the calls of each kind and
\* the calls made while another handler is running.
Call(t, kind, rec) ==
    LET busy == \E s \in Threads : Running(s)
    IN  /\ Free(t)
        /\ left[kind] > 0
        /\ busy => left.overlap > 0
        /\ left' = [left EXCEPT ![kind] = @ - 1,
                                !.overlap = IF busy THEN @ - 1 ELSE @]
        /\ serial' = (serial /\ ~busy)
        /\ Step(t, rec)

\* The event start arrives on a connection: a new one, or one that is open.
begin_start(t, user_name, user_sid) ==
    /\ user_sid \in open \/ NewSid(user_sid)
    /\ \A s \in Threads : Disconnecting(s) => thr[s].user_sid # user_sid
    /\ Call(t, "start", [Idle EXCEPT !.h = "start", !.pc = "check",
                                     !.user_name = user_name,
                                     !.user_sid = user_sid])
    /\ open' = open \cup {user_sid}
    /\ UNCHANGED <<subscriptions, sessions, pending_messages,
                   last_disconnected_time, rooms, clock, nmsgs, history>>

\* A connection goes away: one that is open, or one that was opened and
\* never sent start.
begin_disconnect(t, user_sid) ==
    /\ user_sid \in open \/ NewSid(user_sid)
    /\ \A s \in Threads : Disconnecting(s) => thr[s].user_sid # user_sid
    /\ Call(t, "disconnect", [Idle EXCEPT !.h = "disconnect",
                                          !.pc = "d_known",
                                          !.user_sid = user_sid,
                                          !.bound = get_user_name(
                                              user_sid_to_name_sessions,
                                              user_sid)])
    /\ open' = open \cup {user_sid}
    /\ UNCHANGED <<subscriptions, sessions, pending_messages,
                   last_disconnected_time, rooms, clock, nmsgs, history>>

\* POST /publish with one entry for each topic of the list.
begin_publish(t, request) ==
    /\ nmsgs + Len(request) <= MaxMsgs
    /\ Call(t, "publish", [Idle EXCEPT !.h = "publish", !.pc = "pub_time",
                                       !.request = request,
                                       !.first = nmsgs + 1])
    /\ nmsgs' = nmsgs + Len(request)
    /\ UNCHANGED <<subscriptions, sessions, pending_messages,
                   last_disconnected_time, transport, clock, history>>

\* POST /subscribe.
begin_subscribe(t, user_name, request) ==
    /\ Call(t, "subscribe", [Idle EXCEPT !.h = "subscribe", !.pc = "sub_u2t",
                                         !.user_name = user_name,
                                         !.request = request, !.i = 1])
    /\ UNCHANGED <<subscriptions, sessions, pending_messages,
                   last_disconnected_time, transport, clock, nmsgs, history>>

\* POST /unsubscribe.
begin_unsubscribe(t, user_name, request) ==
    /\ Call(t, "unsubscribe", [Idle EXCEPT !.h = "unsubscribe",
                                           !.pc = "unsub_check",
                                           !.user_name = user_name,
                                           !.request = request, !.i = 1])
    /\ UNCHANGED <<subscriptions, sessions, pending_messages,
                   last_disconnected_time, transport, clock, nmsgs, history>>

\* Subscriptions.add_user called by itself, helper_types.py:229-238.
begin_add_user(t, user_name, topic) ==
    /\ Call(t, "add_user", [Idle EXCEPT !.h = "add_user", !.pc = "sub_u2t",
                                        !.user_name = user_name,
                                        !.request = <<topic>>, !.i = 1])
    /\ UNCHANGED <<subscriptions, sessions, pending_messages,
                   last_disconnected_time, transport, clock, nmsgs, history>>

\* Subscriptions.remove_user called by itself, helper_types.py:240-253.
begin_remove_user(t, user_name, topic) ==
    /\ Call(t, "remove_user", [Idle EXCEPT !.h = "remove_user",
                                           !.pc = "unsub_known",
                                           !.user_name = user_name,
                                           !.topic = topic,
                                           !.before = {<<u, tp>> \in
                                               Users \X Topics :
                                               tp \in get_topics(
                                                 user_to_topic_subscriptions,
                                                 u)}])
    /\ UNCHANGED <<subscriptions, sessions, pending_messages,
                   last_disconnected_time, transport, clock, nmsgs, history>>

\* Subscriptions.get_topics called by itself, helper_types.py:205-215.
begin_get_topics(t, user_name) ==
    /\ Call(t, "get_topics", [Idle EXCEPT !.h = "get_topics",
                                          !.pc = "gt_read",
                                          !.user_name = user_name])
    /\ UNCHANGED <<subscriptions, sessions, pending_messages,
                   last_disconnected_time, transport, clock, nmsgs, history>>

\* Subscriptions.get_users called by itself, helper_types.py:217-227.
begin_get_users(t, topic) ==
    /\ Call(t, "get_users", [Idle EXCEPT !.h = "get_users",
                                         !.pc = "gu_read",
                                         !.topic = topic])
    /\ UNCHANGED <<subscriptions, sessions, pending_messages,
                   last_disconnected_time, transport, clock, nmsgs, history>>

\* helper_types.py:215: the read of the defaultdict(set) makes the key of a
\* user it has not.
Subscriptions_get_topics(t) ==
    LET me == thr[t]
    IN  /\ me.h = "get_topics"
        /\ me.pc = "gt_read"
        /\ user_to_topic_subscriptions' =
               DictTouch(user_to_topic_subscriptions, me.user_name)
        /\ Step(t, Return(me))
        /\ UNCHANGED <<topic_to_user_subscriptions, sessions,
                       pending_messages, last_disconnected_time, transport,
                       history, clock, nmsgs, left, serial>>

\* helper_types.py:227: the read of the defaultdict(set) makes the key of a
\* topic it has not.
Subscriptions_get_users(t) ==
    LET me == thr[t]
    IN  /\ me.h = "get_users"
        /\ me.pc = "gu_read"
        /\ topic_to_user_subscriptions' =
               DictTouch(topic_to_user_subscriptions, me.topic)
        /\ Step(t, Return(me))
        /\ UNCHANGED <<user_to_topic_subscriptions, sessions,
                       pending_messages, last_disconnected_time, transport,
                       history, clock, nmsgs, left, serial>>

Subscriptions_add_user(t) ==
    /\ thr[t].h = "add_user"
    /\ subscribe_step(t)
    /\ UNCHANGED <<clock, nmsgs, left, serial>>

Subscriptions_remove_user(t) ==
    /\ thr[t].h = "remove_user"
    /\ unsubscribe_step(t)
    /\ UNCHANGED <<clock, nmsgs, left, serial>>

\* The handler of thread t has ended.  After the disconnect handler the
\* transport forgets the connection and its rooms.
finish(t) ==
    LET me == thr[t]
        closes == /\ Disconnecting(t)
                  /\ \A s \in Threads \ {t} :
                        Disconnecting(s) => thr[s].user_sid # me.user_sid
    IN  /\ me.pc = "return"
        /\ Step(t, Idle)
        /\ open' = IF closes THEN open \ {me.user_sid} ELSE open
        /\ rooms' = IF closes THEN [rooms EXCEPT ![me.user_sid] = {}]
                    ELSE rooms
        /\ UNCHANGED <<subscriptions, sessions, pending_messages,
                       last_disconnected_time, clock, nmsgs, left, history,
                       serial>>

\* Time passes.
advance(delay) ==
    /\ left.advance > 0
    /\ clock + delay <= MaxTime
    /\ clock' = clock + delay
    /\ left' = [left EXCEPT !.advance = @ - 1]
    /\ UNCHANGED <<subscriptions, sessions, pending_messages,
                   last_disconnected_time, transport, nmsgs, thr, history,
                   serial>>

Budget(st, di, pu, su, un, ad, ov) ==
    [start |-> st, disconnect |-> di, publish |-> pu, subscribe |-> su,
     unsubscribe |-> un, advance |-> ad, overlap |-> ov, add_user |-> 0,
     remove_user |-> 0, get_topics |-> 0, get_users |-> 0]

\* ------------------------------------------------------- specifications
\* The requests of the runs: any user on any connection, one topic.
Starts == \E t \in Threads, u \in Users, sid \in Sids : begin_start(t, u, sid)

Disconnects == \E t \in Threads, sid \in Sids : begin_disconnect(t, sid)

Publishes == \E t \in Threads : begin_publish(t, <<"food">>)

Batches == \E t \in Threads, r \in ListsOver({"food"}) : begin_publish(t, r)

Subscribes == \E t \in Threads, u \in Users : begin_subscribe(t, u, <<"food">>)

Unsubscribes ==
    \E t \in Threads, u \in Users : begin_unsubscribe(t, u, <<"food">>)

RunStart == \E t \in Threads : handle_start(t)

RunDisconnect == \E t \in Threads : handle_disconnect(t)

RunPublish == \E t \in Threads : publish_messages(t)

RunSubscribe == \E t \in Threads : subscribe(t)

RunUnsubscribe == \E t \in Threads : unsubscribe(t)

Finish == \E t \in Threads : finish(t)

Advance == \E delay \in Delays : advance(delay)

\* Spec: the five handlers, two starts and one call of each other handler,
\* MaxOverlap of the calls made while another handler runs.
Next ==
    \/ Starts \/ Disconnects \/ Publishes \/ Subscribes \/ Unsubscribes
    \/ RunStart \/ RunDisconnect \/ RunPublish \/ RunSubscribe
    \/ RunUnsubscribe \/ Finish

Spec == Init(Budget(2, 1, 1, 1, 1, 0, MaxOverlap)) /\ [][Next]_vars

\* SpecTwo: both users subscribe; no unsubscribe.
NextTwo ==
    \/ Starts \/ Disconnects \/ Publishes \/ Subscribes
    \/ RunStart \/ RunDisconnect \/ RunPublish \/ RunSubscribe \/ Finish

SpecTwo ==
    Init(Budget(2, 1, 1, 2, 0, 0, MaxOverlap)) /\ [][NextTwo]_vars

\* SpecBatch: a publish of up to MaxBatch entries, both users subscribe and
\* start.
NextBatch ==
    \/ Starts \/ Batches \/ Subscribes
    \/ RunStart \/ RunPublish \/ RunSubscribe \/ Finish

SpecBatch ==
    Init(Budget(2, 0, 1, 2, 0, 0, MaxOverlap)) /\ [][NextBatch]_vars

\* SpecTime: time passes between and during a start and two publishes.
NextTime ==
    \/ Starts \/ Publishes \/ Subscribes
    \/ RunStart \/ RunPublish \/ RunSubscribe \/ Finish \/ Advance

SpecTime ==
    Init(Budget(1, 0, 2, 1, 0, 1, MaxOverlap)) /\ [][NextTime]_vars

\* SpecEvict: two publishes, more than ttl apart or not, a start and an
\* unsubscribe.
NextEvict ==
    \/ Starts \/ Publishes \/ Subscribes \/ Unsubscribes
    \/ RunStart \/ RunPublish \/ RunSubscribe \/ RunUnsubscribe \/ Finish
    \/ advance(TTL + 1)

SpecEvict ==
    Init(Budget(1, 0, 2, 2, 1, 1, MaxOverlap)) /\ [][NextEvict]_vars

\* SpecReg: the subscription registry by itself, its four methods called
\* from two threads.
NextReg ==
    \/ \E t \in Threads, u \in Users, tp \in Topics : begin_add_user(t, u, tp)
    \/ \E t \in Threads, u \in Users, tp \in Topics :
          begin_remove_user(t, u, tp)
    \/ \E t \in Threads, u \in Users : begin_get_topics(t, u)
    \/ \E t \in Threads, tp \in Topics : begin_get_users(t, tp)
    \/ \E t \in Threads : Subscriptions_add_user(t)
    \/ \E t \in Threads : Subscriptions_remove_user(t)
    \/ \E t \in Threads : Subscriptions_get_topics(t)
    \/ \E t \in Threads : Subscriptions_get_users(t)
    \/ Finish

SpecReg ==
    /\ Init([Budget(0, 0, 0, 0, 0, 0, MaxOverlap) EXCEPT
                 !.add_user = 2, !.remove_user = 2, !.get_topics = 1,
                 !.get_users = 1])
    /\ [][NextReg]_vars

\* SpecFirst: first and later starts of the users around a disconnect and a
\* publish, with ttl and more than ttl of time passing.
NextFirst ==
    \/ Starts \/ Disconnects \/ Publishes \/ Subscribes
    \/ RunStart \/ RunDisconnect \/ RunPublish \/ RunSubscribe \/ Finish
    \/ Advance

SpecFirst ==
    Init(Budget(2, 1, 1, 1, 0, 1, MaxOverlap)) /\ [][NextFirst]_vars

\* ------------------------------------------------------------- properties
\* Thread t is in (or at the return of) a start that was accepted.
Accepted(t) == thr[t].h = "start" /\ thr[t].accepted

Returned(t) == Running(t) /\ thr[t].pc = "return"

\* The step is one of the handler of thread t.
Stepped(t) == Running(t) /\ thr'[t] # thr[t]

\* The step is the one that ends the handler of thread t.
Completes(t) == Running(t) /\ thr[t].pc # "return" /\ thr'[t].pc = "return"

Count(id, list) == Cardinality({k \in 1..Len(list) : list[k] = id})

Stored(topic) == Range(log_of(messages, topic))

StoredAll == UNION {Stored(topic) : topic \in DOMAIN messages}

\* What the emit of an entry carries.
Emitted(id) ==
    [publish_time |-> published[id].publish_time, content |-> id]

\* The entries a start has sent, and those of a topic in the order it sent
\* them.
SentIds(t) == {thr[t].sent[k].content : k \in 1..Len(thr[t].sent)}

SentOf(t, topic) ==
    SelectSeq(thr[t].sent, LAMBDA m : published[m.content].topic = topic)

\* ldt and its primed value agree on the users.
SameTimes(before_, after_) ==
    \A user \in Users :
       /\ (user \in DOMAIN before_) = (user \in DOMAIN after_)
       /\ user \in DOMAIN before_ => before_[user] = after_[user]

\* C1, its case: the entry was emitted while the user followed its topic and
\* had no session, the user follows the topic at the start of thread t, and
\* the start, from its first step to the time its eviction reads, is no
\* later than ttl after the publish time.
Due(id, t) ==
    /\ id \in thr[t].missing
    /\ published[id].topic \in thr[t].follows
    /\ thr[t].at <= published[id].publish_time + TTL
    /\ thr[t].now <= published[id].publish_time + TTL

\* C1 as stated: an entry emitted while the user followed its topic and had
\* no session is sent exactly once during the user's next accepted start,
\* when the user follows the topic then and the start is no later than ttl
\* after the publish time.
C1_MissedIsReplayedOnce ==
    \A t \in Threads :
       (Accepted(t) /\ Returned(t)) =>
           \A id \in DOMAIN published :
              Due(id, t) => Count(Emitted(id), thr[t].sent) = 1

\* C2 as stated: a start for a user who has a session is rejected and its
\* steps, the disconnect of its connection included, leave the session of
\* the user, the connection of that session, the stored messages, the
\* replays and the user's last disconnect time as they were.
C2_RejectLeavesSession ==
    [][\A t \in Threads :
          (Stepped(t) /\ thr[t].h = "start"
              /\ (thr[t].rejected \/ thr'[t].rejected)) =>
             /\ UNCHANGED <<sessions, messages, objects, replayed>>
             /\ SameTimes(last_disconnected_time, last_disconnected_time')
             /\ \A sid \in open :
                   get_user_name(user_sid_to_name_sessions, sid)
                       = thr[t].user_name => sid \in open'
      ]_vars

\* C3 as stated: whenever no handler is running the two session maps are
\* inverse of each other.
C3_Bijection ==
    Quiescent =>
        /\ \A user \in DOMAIN user_name_to_sid_sessions :
              /\ user_name_to_sid_sessions[user]
                     \in DOMAIN user_sid_to_name_sessions
              /\ user_sid_to_name_sessions[user_name_to_sid_sessions[user]]
                     = user
        /\ \A sid \in DOMAIN user_sid_to_name_sessions :
              /\ user_sid_to_name_sessions[sid]
                     \in DOMAIN user_name_to_sid_sessions
              /\ user_name_to_sid_sessions[user_sid_to_name_sessions[sid]]
                     = sid

\* An entry has reached a user: live, by replay, or it is stored as owed to
\* the user.
Reached(id, user) ==
    \/ user \in published[id].live
    \/ <<id, user>> \in replayed
    \/ /\ id \in Stored(published[id].topic)
       /\ user \in objects[id].pending_users

\* C4 as stated: when the handlers that ran interleaved are complete, every
\* entry whose time to live is not over has reached every user who followed
\* its topic when it was emitted and follows it still: no entry is lost.
C4_NeverLost ==
    Quiescent =>
        \A id \in DOMAIN published :
           clock <= published[id].publish_time + TTL =>
               \A user \in published[id].subscribed
                         \cap get_users(topic_to_user_subscriptions,
                                        published[id].topic) :
                  Reached(id, user)

\* C5 as stated: an accepted start handled at time now sends no entry whose
\* publish time is more than ttl before now.
C5_NothingOlderThanTtl ==
    \A t \in Threads :
       Accepted(t) =>
           \A k \in 1..Len(thr[t].sent) :
              thr[t].now <= thr[t].sent[k].publish_time + TTL

\* C6 as stated: the users an entry is sent to live and the users it is
\* stored as owed to follow the topic when the entry is emitted.
C6_OnlySubscribers ==
    \A id \in DOMAIN published :
       /\ published[id].live \subseteq published[id].subscribed
       /\ id \in DOMAIN objects =>
             objects[id].pending_users \subseteq published[id].subscribed

\* C7 as stated: for an entry, publish appends one message to the log of the
\* topic, owed to the followers of the topic without a session, when there
\* are any, and leaves the store as it was when there are none.
C7_AppendsForOffline ==
    [][\A t \in Threads :
          (Stepped(t) /\ thr[t].h = "publish") =>
             LET topic == EntryTopic(thr[t])
                 offline == get_users(topic_to_user_subscriptions, topic)
                               \ get_all_connected_user_names(
                                     user_name_to_sid_sessions)
             IN  /\ thr[t].pc = "pub_store" =>
                       /\ offline # {}
                       /\ messages'[topic]
                              = Append(log_of(messages, topic),
                                       EntryId(thr[t]))
                       /\ objects'[EntryId(thr[t])].pending_users = offline
                 /\ (thr[t].pc = "pub_pending"
                        /\ thr'[t].pc # "pub_store") => offline = {}
                 /\ thr[t].pc \notin {"pub_store", "pub_users"} =>
                       UNCHANGED <<messages, objects>>
      ]_vars

\* C8 as stated: whenever no handler is running no log holds a message that
\* is owed to nobody.
C8_NoEmptyOwed ==
    Quiescent => \A id \in StoredAll : objects[id].pending_users # {}

\* C9 as stated: a start sends the user no entry an earlier start has sent
\* the user.
C9_NoSecondReplay ==
    \A t \in Threads :
       Accepted(t) => SentIds(t) \cap thr[t].before = {}

\* C10 as stated: the start of a user with no recorded disconnect time
\* replays nothing.
C10_FirstStartReplaysNothing ==
    \A t \in Threads :
       (Accepted(t) /\ thr[t].since = 0) => thr[t].sent = <<>>

\* C10, its replay: the messages of a log as they are sent.
AsSent(log) == [k \in 1..Len(log) |-> Message_jsonify(objects[log[k]])]

\* C10 amended: with the events serialized, the accepted start of a user
\* with no recorded disconnect time takes 0 as this time and sends the user,
\* for each topic the user follows, every message the eviction of this
\* start has left in the log of the topic, each once and in the order of
\* the log, and nothing else.
C10_FirstStartReplaysStored ==
    \A t \in Threads :
       (serial /\ Accepted(t) /\ Returned(t)
           /\ thr[t].user_name \notin DOMAIN last_disconnected_time) =>
          /\ thr[t].raised = ""
          /\ thr[t].since = 0
          /\ DOMAIN thr[t].logs = thr[t].follows
          /\ \A id \in SentIds(t) :
                published[id].topic \in DOMAIN thr[t].logs
          /\ \A topic \in DOMAIN thr[t].logs :
                SentOf(t, topic) = AsSent(thr[t].logs[topic])

\* A first start has replayed a stored message published before its time,
\* while the other user has a recorded disconnect time.
C10_Witness ==
    \E t \in Threads :
       /\ serial
       /\ Accepted(t)
       /\ Returned(t)
       /\ thr[t].user_name \notin DOMAIN last_disconnected_time
       /\ \E other \in Users : other \in DOMAIN last_disconnected_time
       /\ Len(thr[t].sent) = 1
       /\ \A id \in SentIds(t) : published[id].publish_time < thr[t].now

\* C11 as stated: at the step that ends an unsubscribe, no message of a
\* topic it removed the user from is owed to the user, and none is left
\* that is owed to nobody.
C11_UnsubscribeClearsOwed ==
    [][\A t \in Threads :
          (Completes(t) /\ thr[t].h = "unsubscribe"
              /\ thr'[t].raised = "") =>
             \A topic \in thr'[t].gone :
                \A id \in Range(log_of(messages', topic)) :
                   /\ thr[t].user_name \notin objects'[id].pending_users
                   /\ objects'[id].pending_users # {}
      ]_vars

\* C12 as stated: whenever no call is running, a topic is among the topics
\* of a user exactly when the user is among the users of the topic.
C12_ViewsAgree ==
    Quiescent =>
        \A user \in Users, topic \in Topics :
           topic \in get_topics(user_to_topic_subscriptions, user)
               <=> user \in get_users(topic_to_user_subscriptions, topic)

\* C13 as stated: removing a pair that is not in the registry raises no
\* error.
C13_RemoveAbsentIsNoop ==
    \A t \in Threads :
       (thr[t].h = "remove_user" /\ Returned(t)
           /\ <<thr[t].user_name, thr[t].topic>> \notin thr[t].before) =>
          thr[t].raised = ""

\* C14: the steps of a disconnect of a connection that is bound to no user,
\* when the handler begins, whenever it looks and at the step, change no
\* session, no subscription, no stored message and no user's last disconnect
\* time.
C14_UnknownHandleIsNoop ==
    [][\A t \in Threads :
          (Stepped(t) /\ thr[t].h = "disconnect"
              /\ thr[t].bound = None
              /\ thr[t].name = None
              /\ thr[t].found = None
              /\ thr[t].user_sid \notin DOMAIN user_sid_to_name_sessions) =>
             /\ UNCHANGED <<sessions, subscriptions, messages, objects>>
             /\ SameTimes(last_disconnected_time, last_disconnected_time')
      ]_vars

C14_Witness ==
    \E t \in Threads :
       /\ thr[t].h = "disconnect"
       /\ Returned(t)
       /\ thr[t].bound = None
       /\ thr[t].name = None
       /\ None \in DOMAIN last_disconnected_time
       /\ user_sid_to_name_sessions # EmptyDict

\* C15 as stated: in every state every log is in the order of the publish
\* times.
C15_LogsSorted ==
    \A topic \in DOMAIN messages :
       \A k, l \in 1..Len(messages[topic]) :
          k < l => objects[messages[topic][k]].publish_time
                       <= objects[messages[topic][l]].publish_time

\* C16, its range: the messages of a log whose publish time is not before
\* since, as they are sent.
TimeRange(log, since) ==
    LET ids == SelectSeq(log, LAMBDA id : objects[id].publish_time >= since)
    IN  [k \in 1..Len(ids) |-> Message_jsonify(objects[ids[k]])]

\* C16 as stated: an accepted start sends the user, for each topic the user
\* follows, the messages left in the log after the eviction whose publish
\* time is not before the user's last disconnect time, each once and in the
\* order of the log, and nothing else.
C16_ReplayIsTimeRange ==
    \A t \in Threads :
       (Accepted(t) /\ Returned(t)) =>
           /\ \A id \in SentIds(t) :
                 published[id].topic \in DOMAIN thr[t].logs
           /\ \A topic \in DOMAIN thr[t].logs :
                 SentOf(t, topic)
                     = TimeRange(thr[t].logs[topic], thr[t].since)

\* C17 as stated: at the step that ends an accepted start handled at time
\* now, no log holds a message published more than ttl before now.
C17_EvictsAllTopics ==
    [][\A t \in Threads :
          (Completes(t) /\ Accepted(t)) =>
             \A topic \in DOMAIN messages' :
                \A id \in Range(messages'[topic]) :
                   objects'[id].publish_time >= thr'[t].now - TTL
      ]_vars

\* C18 as stated: no step of a publish, a disconnect, a subscribe, an
\* unsubscribe or a rejected start takes a message that is owed to somebody
\* out of a log.
C18_OnlyStartEvicts ==
    [][\A t \in Threads :
          (Stepped(t) /\ ~Accepted(t)) =>
             \A topic \in DOMAIN messages :
                \A id \in Range(messages[topic]) \ Range(messages'[topic]) :
                   objects[id].pending_users = {}
      ]_vars

\* C19 as stated: the steps of a disconnect of a connection bound to a user
\* change the session and the last disconnect time of that user only, and
\* no subscription and no stored message.
C19_DisconnectTouchesOneUser ==
    [][\A t \in Threads :
          (Stepped(t) /\ thr[t].h = "disconnect"
              /\ thr[t].bound \in Users) =>
             /\ UNCHANGED <<subscriptions, messages, objects>>
             /\ \A user \in Users \ {thr[t].bound} :
                   /\ (user \in DOMAIN user_name_to_sid_sessions)
                          = (user \in DOMAIN user_name_to_sid_sessions')
                   /\ (user \in DOMAIN last_disconnected_time)
                          = (user \in DOMAIN last_disconnected_time')
                   /\ user \in DOMAIN last_disconnected_time =>
                         last_disconnected_time[user]
                             = last_disconnected_time'[user]
      ]_vars

\* C20 as stated: whenever no handler is running, the rooms of the
\* connection of each user with a session are the topics the user follows,
\* and no entry was both sent live to a user and stored as owed to the user.
C20_RoomsAreSubscriptions ==
    Quiescent =>
        /\ \A user \in DOMAIN user_name_to_sid_sessions :
              user_name_to_sid_sessions[user] \in Sids =>
                  rooms[user_name_to_sid_sessions[user]]
                      = get_topics(user_to_topic_subscriptions, user)
        /\ \A id \in DOMAIN objects :
              published[id].live \cap objects[id].pending_users = {}

\* C21: when the handlers have run one at a time and none is running, no
\* user who has a session is among the owed users of a stored message.
C21_ConnectedNotOwed ==
    (serial /\ Quiescent) =>
        \A id \in StoredAll :
           objects[id].pending_users
               \cap get_all_connected_user_names(user_name_to_sid_sessions)
                   = {}

C21_Witness ==
    /\ serial
    /\ Quiescent
    /\ \E id \in StoredAll, user \in Users :
          /\ <<id, user>> \in replayed
          /\ is_user_connected(user_name_to_sid_sessions, user)
          /\ objects[id].pending_users # {}

\* C22 as stated: whenever no handler is running, the owed users of every
\* stored message follow the topic of the message.
C22_OwedAreSubscribers ==
    Quiescent =>
        \A topic \in DOMAIN messages : \A id \in Stored(topic) :
           objects[id].pending_users
               \subseteq get_users(topic_to_user_subscriptions, topic)

====
